---- MODULE Spec2Model ----
(***************************************************************************)
(* A model of advanced-vector/vector.h: RawMemory<T>, the owner of a raw    *)
(* buffer, and Vector<T>, the dynamic array built on it.                    *)
(*                                                                          *)
(* The heap is a map from buffer ids to blocks; a block is allocated or    *)
(* not and has one slot per element. A slot holds NoObj (raw memory) or    *)
(* the value of the live T object placed there. A pointer is a buffer id   *)
(* (Null is nullptr); an iterator is a buffer id and an index.             *)
(***************************************************************************)
EXTENDS Integers, Sequences, FiniteSets, TLC

VARIABLES T, lim, vecs, raws, heap, faults, log, last

vars == <<T, lim, vecs, raws, heap, faults, log, last>>

---------------------------------------------------------------------------
(* Bounds of the model *)

\* the largest capacity requested of one vector alone, and of each of two
MaxCap == 4
PairCap == 1
\* the largest capacity requested of each of two vectors that are only copied
CopyCap == 2
\* the largest capacity requested when a vector is only appended to
AppendCap == 8
MaxVal == 2
MaxBuf == 3
\* the failures (of an allocation or of an operation of T) injected in one behaviour
MaxFaults == 2

---------------------------------------------------------------------------
(* Values and element types *)

Null == 0
NoObj == -1
MovedFrom == 0
DefaultVal == 1

Values == 1..MaxVal
BufIds == 1..MaxBuf
VecIds == {"a", "b"}
RawIds == {"r", "s"}

\* The capabilities of T the code asks for: is_nothrow_move_constructible_v,
\* is_copy_constructible_v, is_nothrow_move_assignable_v.
TypeKinds ==
    { [nmc |-> TRUE,  cc |-> TRUE,  nma |-> TRUE],
      [nmc |-> FALSE, cc |-> TRUE,  nma |-> FALSE],
      [nmc |-> FALSE, cc |-> FALSE, nma |-> FALSE] }

\* every combination of the three capabilities
AllTypeKinds == [nmc : BOOLEAN, cc : BOOLEAN, nma : BOOLEAN]

\* a build that migrates by move whatever T can do
ByMoveAlways == TRUE

\* if constexpr (is_nothrow_move_constructible_v<T> || !is_copy_constructible_v<T>)
ByMove == T.nmc \/ ~T.cc

\* the same test in Erase, where it chooses between std::move and std::copy
ShiftByMove == T.nmc \/ ~T.cc

---------------------------------------------------------------------------
(* The heap: operator new / operator delete *)

FreeBlock == [alloc |-> FALSE, slots |-> <<>>]

RawSlots(n) == [i \in 1..n |-> NoObj]

HasLive(s) == \E i \in DOMAIN s : s[i] # NoObj

\* operator new can serve a request of n slots within the model's heap
CanAllocate(h, n) == n = 0 \/ \E b \in BufIds : ~h[b].alloc

\* the pointer RawMemory::Allocate(n) returns
AllocPtr(h, n) ==
    IF n = 0 THEN Null
    ELSE CHOOSE b \in BufIds : ~h[b].alloc /\ \A c \in BufIds : ~h[c].alloc => b <= c

Mem(h) == [heap |-> h, liveFreed |-> FALSE, dfree |-> FALSE]

\* RawMemory::Allocate
Allocate(m, p, n) ==
    IF p = Null THEN m
    ELSE [m EXCEPT !.heap[p] = [alloc |-> TRUE, slots |-> RawSlots(n)]]

\* RawMemory::Deallocate: operator delete(buf). Releasing a block that still
\* has a live object, or one that is not allocated, is recorded.
Deallocate(m, p) ==
    IF p = Null THEN m
    ELSE IF ~m.heap[p].alloc THEN [m EXCEPT !.dfree = TRUE]
    ELSE [heap |-> [m.heap EXCEPT ![p] = FreeBlock],
          liveFreed |-> m.liveFreed \/ HasLive(m.heap[p].slots),
          dfree |-> m.dfree]

---------------------------------------------------------------------------
(* Element operations on slots (index i is 0-based, as in the code) *)

Get(h, b, i) == h[b].slots[i + 1]

\* placement new at slot i / assignment to slot i
Put(h, b, i, x) == [h EXCEPT ![b].slots[i + 1] = x]

\* std::destroy_n(buf + from, n)
DestroyN(h, b, from, n) ==
    IF n = 0 THEN h
    ELSE [h EXCEPT ![b].slots =
            [i \in DOMAIN @ |-> IF from <= i - 1 /\ i - 1 < from + n THEN NoObj ELSE @[i]]]

\* the n elements of sb from s0 written to db from d0 (construction or assignment)
CopyInto(h, sb, s0, n, db, d0) ==
    IF n = 0 THEN h
    ELSE [h EXCEPT ![db].slots =
            [i \in DOMAIN @ |-> IF d0 <= i - 1 /\ i - 1 < d0 + n
                                 THEN h[sb].slots[i - d0 + s0] ELSE @[i]]]

\* the n elements of b from s0 left in the moved-from state
MarkMoved(h, b, s0, n) ==
    IF n = 0 THEN h
    ELSE [h EXCEPT ![b].slots =
            [i \in DOMAIN @ |-> IF s0 <= i - 1 /\ i - 1 < s0 + n THEN MovedFrom ELSE @[i]]]

\* std::uninitialized_copy_n, no failure
UninitCopy(h, sb, s0, n, db, d0) == CopyInto(h, sb, s0, n, db, d0)

\* std::uninitialized_move_n, no failure
UninitMove(h, sb, s0, n, db, d0) == MarkMoved(CopyInto(h, sb, s0, n, db, d0), sb, s0, n)

\* a migration that stops one element short of the range
MigrateShort(h, sb, s0, n, db, d0) ==
    IF n = 0 THEN h
    ELSE IF ByMove THEN UninitMove(h, sb, s0, n - 1, db, d0)
    ELSE UninitCopy(h, sb, s0, n - 1, db, d0)

\* the migration of a growth event, chosen by ByMove
Migrate(h, sb, s0, n, db, d0) ==
    IF ByMove THEN UninitMove(h, sb, s0, n, db, d0) ELSE UninitCopy(h, sb, s0, n, db, d0)

\* a migration whose construction of the k-th element of the range throws:
\* the algorithm destroys what it constructed in the destination; the sources
\* already moved from stay moved-from
MigrateFailed(h, sb, s0, k) == IF ByMove THEN MarkMoved(h, sb, s0, k) ELSE h

\* can the migration of an element throw for this T
MigrateCanFail == IF ByMove THEN ~T.nmc ELSE TRUE

RECURSIVE MoveBackward(_, _, _, _, _)
\* std::move_backward(first, last, d_last) on the slots s of one buffer, by
\* move assignment, stopping after k assignments
MoveBackward(s, first, lst, dlast, k) ==
    IF first = lst \/ k = 0 THEN s
    ELSE MoveBackward([s EXCEPT ![dlast] = s[lst], ![lst] = MovedFrom],
                      first, lst - 1, dlast - 1, k - 1)

RECURSIVE MoveForward(_, _, _, _, _)
\* std::move(first, last, d_first) on the slots s of one buffer, by move
\* assignment, stopping after k assignments
MoveForward(s, first, lst, d, k) ==
    IF first = lst \/ k = 0 THEN s
    ELSE MoveForward([s EXCEPT ![d + 1] = s[first + 1], ![first + 1] = MovedFrom],
                     first + 1, lst, d + 1, k - 1)

RECURSIVE CopyForward(_, _, _, _, _)
\* std::copy(first, last, d_first) on the slots s of one buffer, by copy
\* assignment, stopping after k assignments
CopyForward(s, first, lst, d, k) ==
    IF first = lst \/ k = 0 THEN s
    ELSE CopyForward([s EXCEPT ![d + 1] = s[first + 1]], first + 1, lst, d + 1, k - 1)

---------------------------------------------------------------------------
(* Objects *)

\* RawMemory(): buffer_ = nullptr, capacity_ = 0
EmptyRaw == [buf |-> Null, cap |-> 0]

DeadVec == [alive |-> FALSE, data |-> EmptyRaw, size |-> 0]
\* Vector() = default
EmptyVec == [alive |-> TRUE, data |-> EmptyRaw, size |-> 0]

DeadRawObj == [alive |-> FALSE, mem |-> EmptyRaw]

NoRet == [buf |-> Null, idx |-> 0]

\* what a call leaves: the object, the heap and what the heap recorded, the
\* iterator returned, and whether an exception left the call
Returned(vec, m, ret) ==
    [vec |-> vec, heap |-> m.heap, liveFreed |-> m.liveFreed, dfree |-> m.dfree,
     ret |-> ret, thrown |-> FALSE]

Thrown(vec, m) ==
    [vec |-> vec, heap |-> m.heap, liveFreed |-> m.liveFreed, dfree |-> m.dfree,
     ret |-> NoRet, thrown |-> TRUE]

MemOf(r) == [heap |-> r.heap, liveFreed |-> r.liveFreed, dfree |-> r.dfree]

\* the values of the live elements [0, size) of a vector
ElemsIn(h, vec) == [i \in 1..vec.size |-> h[vec.data.buf].slots[i]]

---------------------------------------------------------------------------
(* RawMemory *)

\* RawMemory::Swap: the two objects after the exchange, <<this, other>>
RawSwap(this, other) == <<other, this>>

\* RawMemory(RawMemory&& other): a default-initialised object swapped with other
RawMoveCtor(other) == RawSwap(EmptyRaw, other)

\* RawMemory::operator=(RawMemory&& rhs), this != &rhs:
\* Deallocate(buffer_); Swap(rhs);
RawMoveAssign(this, rhs, m) ==
    [objs |-> RawSwap(this, rhs), m |-> Deallocate(m, this.buf)]

\* ~RawMemory: Deallocate(buffer_)
RawDtor(this, m) == Deallocate(m, this.buf)

---------------------------------------------------------------------------
(* Vector: growth *)

\* a growth by one slot
NewCapacityByOne(size) == size + 1

\* size_t new_capacity = size_ == 0 ? 1 : size_ * 2;
NewCapacity(size) == IF size = 0 THEN 1 ELSE size * 2

\* ~Vector: std::destroy_n(data_.GetAddress(), size_), then ~RawMemory
VectorDtor(vec, m) ==
    RawDtor(vec.data, [m EXCEPT !.heap = DestroyN(m.heap, vec.data.buf, 0, vec.size)])

\* a growth event that takes the new buffer and keeps the old capacity_
AdoptOldCapacity(vec, m, p, ncap) ==
    LET h1 == DestroyN(m.heap, vec.data.buf, 0, vec.size)
    IN  [vec |-> [vec EXCEPT !.data.buf = p],
         m |-> RawDtor(vec.data, [m EXCEPT !.heap = h1])]

\* the end of a growth event: std::destroy_n(data_.GetAddress(), size_);
\* data_.Swap(new_data); and new_data, now the old buffer, leaves scope
Adopt(vec, m, p, ncap) ==
    LET h1 == DestroyN(m.heap, vec.data.buf, 0, vec.size)
        sw == RawSwap(vec.data, [buf |-> p, cap |-> ncap])
    IN  [vec |-> [vec EXCEPT !.data = sw[1]],
         m |-> RawDtor(sw[2], [m EXCEPT !.heap = h1])]

\* a test of the size where the code tests the capacity
EnoughForSize(vec, n) == n < vec.size

\* a test that lets a request for the present capacity through
EnoughStrict(vec, n) == n < vec.data.cap

\* if (new_capacity <= data_.Capacity()) return;
Enough(vec, n) == n <= vec.data.cap

\* a Reserve that destroys the elements before it allocates the new buffer
ReserveDestroysFirst(vec, h, n, fail, k) ==
    IF Enough(vec, n) THEN Returned(vec, Mem(h), NoRet)
    ELSE
      LET p  == AllocPtr(h, n)
          m1 == Allocate(Mem(h), p, n)
      IN  CASE fail = "alloc" ->
                 Thrown([vec EXCEPT !.size = 0], Mem(DestroyN(h, vec.data.buf, 0, vec.size)))
            [] fail = "migrate" ->
                 Thrown(vec, RawDtor([buf |-> p, cap |-> n],
                           [m1 EXCEPT !.heap = MigrateFailed(m1.heap, vec.data.buf, 0, k)]))
            [] OTHER ->
                 LET h2 == Migrate(m1.heap, vec.data.buf, 0, vec.size, p, 0)
                     a  == Adopt(vec, [m1 EXCEPT !.heap = h2], p, n)
                 IN  Returned(a.vec, a.m, NoRet)

\* Vector::Reserve(new_capacity); fail = "alloc" | "migrate" (of element k) | "none"
ReserveCall(vec, h, n, fail, k) ==
    IF Enough(vec, n) THEN Returned(vec, Mem(h), NoRet)
    ELSE
      LET p  == AllocPtr(h, n)
          m1 == Allocate(Mem(h), p, n)
      IN  CASE fail = "alloc" -> Thrown(vec, Mem(h))
            [] fail = "migrate" ->
                 Thrown(vec, RawDtor([buf |-> p, cap |-> n],
                           [m1 EXCEPT !.heap = MigrateFailed(m1.heap, vec.data.buf, 0, k)]))
            [] OTHER ->
                 LET h2 == Migrate(m1.heap, vec.data.buf, 0, vec.size, p, 0)
                     a  == Adopt(vec, [m1 EXCEPT !.heap = h2], p, n)
                 IN  Returned(a.vec, a.m, NoRet)

\* an EmplaceBack that migrates the elements before it constructs the new one
EmplaceBackMigratesFirst(vec, h, val, fail, k) ==
    IF vec.size = vec.data.cap
    THEN
      LET ncap == NewCapacity(vec.size)
          p    == AllocPtr(h, ncap)
          m1   == Allocate(Mem(h), p, ncap)
          new  == [buf |-> p, cap |-> ncap]
          h2   == Migrate(m1.heap, vec.data.buf, 0, vec.size, p, 0)
      IN  CASE fail = "alloc" -> Thrown(vec, Mem(h))
            [] fail = "migrate" ->
                 Thrown(vec, RawDtor(new,
                           [m1 EXCEPT !.heap = MigrateFailed(m1.heap, vec.data.buf, 0, k)]))
            [] fail = "ctor" ->
                 Thrown(vec, RawDtor(new, [m1 EXCEPT !.heap = DestroyN(h2, p, 0, vec.size)]))
            [] OTHER ->
                 LET a == Adopt(vec, [m1 EXCEPT !.heap = Put(h2, p, vec.size, val)], p, ncap)
                 IN  Returned([a.vec EXCEPT !.size = @ + 1], a.m,
                              [buf |-> p, idx |-> vec.size])
    ELSE
      CASE fail = "ctor" -> Thrown(vec, Mem(h))
        [] OTHER ->
             Returned([vec EXCEPT !.size = @ + 1],
                      Mem(Put(h, vec.data.buf, vec.size, val)),
                      [buf |-> vec.data.buf, idx |-> vec.size])

\* Vector::EmplaceBack(vs...); fail = "alloc" | "ctor" | "migrate" (of element k) | "none"
EmplaceBackCall(vec, h, val, fail, k) ==
    IF vec.size = vec.data.cap
    THEN
      LET ncap == NewCapacity(vec.size)
          p    == AllocPtr(h, ncap)
          m1   == Allocate(Mem(h), p, ncap)
          new  == [buf |-> p, cap |-> ncap]
          \* result = new (new_data + size_) T(std::forward<Ts>(vs)...)
          h2   == Put(m1.heap, p, vec.size, val)
      IN  CASE fail = "alloc" -> Thrown(vec, Mem(h))
            [] fail = "ctor" -> Thrown(vec, RawDtor(new, m1))
            [] fail = "migrate" ->
                 Thrown(vec, RawDtor(new,
                           [m1 EXCEPT !.heap = MigrateFailed(h2, vec.data.buf, 0, k)]))
            [] OTHER ->
                 LET h3 == Migrate(h2, vec.data.buf, 0, vec.size, p, 0)
                     a  == Adopt(vec, [m1 EXCEPT !.heap = h3], p, ncap)
                 IN  Returned([a.vec EXCEPT !.size = @ + 1], a.m,
                              [buf |-> p, idx |-> vec.size])
    ELSE
      CASE fail = "ctor" -> Thrown(vec, Mem(h))
        [] OTHER ->
             \* result = new (data_ + size_) T(std::forward<Ts>(vs)...)
             Returned([vec EXCEPT !.size = @ + 1],
                      Mem(Put(h, vec.data.buf, vec.size, val)),
                      [buf |-> vec.data.buf, idx |-> vec.size])

\* Vector::PopBack: std::destroy_at(&data_[size_ - 1]); --size_;
PopBackCall(vec, h) ==
    Returned([vec EXCEPT !.size = @ - 1],
             Mem(DestroyN(h, vec.data.buf, vec.size - 1, 1)), NoRet)

\* a Resize that assigns size_ before it destroys or constructs
ResizeSetsSizeFirst(vec, h, n, fail, k) ==
    IF n < vec.size
    THEN Returned([vec EXCEPT !.size = n],
                  Mem(DestroyN(h, vec.data.buf, n, vec.size - n)), NoRet)
    ELSE IF n > vec.size
    THEN LET r == ReserveCall(vec, h, n, IF fail = "ctor" THEN "none" ELSE fail, k)
         IN  IF r.thrown \/ fail = "ctor" THEN Thrown([r.vec EXCEPT !.size = n], MemOf(r))
             ELSE Returned([r.vec EXCEPT !.size = n],
                           [MemOf(r) EXCEPT !.heap =
                               [@ EXCEPT ![r.vec.data.buf].slots =
                                   [i \in DOMAIN @ |->
                                       IF vec.size <= i - 1 /\ i - 1 < n
                                       THEN DefaultVal ELSE @[i]]]],
                           NoRet)
    ELSE Returned(vec, Mem(h), NoRet)

\* Vector::Resize(new_size); fail = "alloc" | "migrate" (in Reserve) | "ctor" | "none"
ResizeCall(vec, h, n, fail, k) ==
    IF n < vec.size
    THEN Returned([vec EXCEPT !.size = n],
                  Mem(DestroyN(h, vec.data.buf, n, vec.size - n)), NoRet)
    ELSE IF n > vec.size
    THEN LET r == ReserveCall(vec, h, n, IF fail = "ctor" THEN "none" ELSE fail, k)
         IN  IF r.thrown THEN r
             \* std::uninitialized_value_construct_n destroys what it made
             ELSE IF fail = "ctor" THEN Thrown(r.vec, MemOf(r))
             ELSE Returned([r.vec EXCEPT !.size = n],
                           [MemOf(r) EXCEPT !.heap =
                               [@ EXCEPT ![r.vec.data.buf].slots =
                                   [i \in DOMAIN @ |->
                                       IF vec.size <= i - 1 /\ i - 1 < n
                                       THEN DefaultVal ELSE @[i]]]],
                           NoRet)
    ELSE Returned(vec, Mem(h), NoRet)

---------------------------------------------------------------------------
(* Vector: positional insert and erase *)

\* the slots of the buffer after new (data_ + size_) T(std::move(*(end() - 1)))
MoveLastOut(h, vec) ==
    Put(Put(h, vec.data.buf, vec.size, Get(h, vec.data.buf, vec.size - 1)),
        vec.data.buf, vec.size - 1, MovedFrom)

\* a shift that starts one element late
ShiftRightLate(h, vec, pos, k) ==
    [h EXCEPT ![vec.data.buf].slots =
        IF pos + 1 <= vec.size - 1 THEN MoveBackward(@, pos + 1, vec.size - 1, vec.size, k)
        ELSE @]

\* std::move_backward(begin() + pos_index, end() - 1, end()), k assignments done
ShiftRight(h, vec, pos, k) ==
    [h EXCEPT ![vec.data.buf].slots = MoveBackward(@, pos, vec.size - 1, vec.size, k)]

\* Emplace when size_ < Capacity() and pos != end();
\* fail = "movelast" | "ctor" | "shift" (after k assignments) | "assign" | "none"
EmplaceInPlace(vec, h, pos, val, fail, k) ==
    LET h1 == MoveLastOut(h, vec)
        \* T buffer(std::forward<Ts>(vs)...) is a local: it holds val
        h2 == ShiftRight(h1, vec, pos, vec.size - 1 - pos)
    IN  CASE fail = "movelast" -> Thrown(vec, Mem(h))
          [] fail = "ctor" -> Thrown(vec, Mem(h1))
          [] fail = "shift" -> Thrown(vec, Mem(ShiftRight(h1, vec, pos, k)))
          [] fail = "assign" -> Thrown(vec, Mem(h2))
          [] OTHER ->
               \* *(data_ + pos_index) = std::move(buffer); result = data_ + pos_index
               Returned([vec EXCEPT !.size = @ + 1], Mem(Put(h2, vec.data.buf, pos, val)),
                        [buf |-> vec.data.buf, idx |-> pos])

\* Emplace when size_ == Capacity() and pos != end();
\* fail = "alloc" | "ctor" | "migrate" (of element k) | "none"
EmplaceGrow(vec, h, pos, val, fail, k) ==
    LET ncap == NewCapacity(vec.size)
        p    == AllocPtr(h, ncap)
        m1   == Allocate(Mem(h), p, ncap)
        new  == [buf |-> p, cap |-> ncap]
        old  == vec.data.buf
        \* result = new (new_data + pos_index) T(std::forward<Ts>(vs)...)
        h2   == Put(m1.heap, p, pos, val)
    IN  CASE fail = "alloc" -> Thrown(vec, Mem(h))
          [] fail = "ctor" -> Thrown(vec, RawDtor(new, m1))
          [] fail = "migrate" /\ ByMove ->
               \* no handler: what the first std::uninitialized_move built stays,
               \* and so does *result
               LET h3 == IF k < pos THEN MarkMoved(h2, old, 0, k)
                         ELSE MarkMoved(UninitMove(h2, old, 0, pos, p, 0), old, pos, k - pos)
               IN  Thrown(vec, RawDtor(new, [m1 EXCEPT !.heap = h3]))
          [] fail = "migrate" /\ ~ByMove ->
               \* catch (...) { std::destroy_at(result); throw; } for the prefix,
               \* catch (...) { std::destroy_n(new_data.GetAddress(), pos_index + 1); throw; }
               LET h3 == IF k < pos THEN DestroyN(h2, p, pos, 1)
                         ELSE DestroyN(UninitCopy(h2, old, 0, pos, p, 0), p, 0, pos + 1)
               IN  Thrown(vec, RawDtor(new, [m1 EXCEPT !.heap = h3]))
          [] OTHER ->
               LET h3 == Migrate(h2, old, 0, pos, p, 0)
                   h4 == Migrate(h3, old, pos, vec.size - pos, p, pos + 1)
                   a  == Adopt(vec, [m1 EXCEPT !.heap = h4], p, ncap)
               IN  Returned([a.vec EXCEPT !.size = @ + 1], a.m, [buf |-> p, idx |-> pos])

\* Vector::Emplace(pos, vs...), pos given as an index in [0, size]
EmplaceCall(vec, h, pos, val, fail, k) ==
    IF pos = vec.size THEN EmplaceBackCall(vec, h, val, fail, k)
    ELSE IF vec.size = vec.data.cap THEN EmplaceGrow(vec, h, pos, val, fail, k)
    ELSE EmplaceInPlace(vec, h, pos, val, fail, k)

\* Emplace(pos, (*this)[i]): the argument is a reference to element i, read
\* where the code constructs the new element from it: before the migration
\* when the vector grows, after new (data_ + size_) T(std::move(*(end() - 1)))
\* when it does not
EmplaceRefCall(vec, h, pos, i, fail, k) ==
    IF pos = vec.size THEN EmplaceBackCall(vec, h, Get(h, vec.data.buf, i), fail, k)
    ELSE IF vec.size = vec.data.cap
    THEN EmplaceGrow(vec, h, pos, Get(h, vec.data.buf, i), fail, k)
    ELSE EmplaceInPlace(vec, h, pos, Get(MoveLastOut(h, vec), vec.data.buf, i), fail, k)

\* a shift that writes one slot too far to the right
ShiftLeftOntoNext(h, vec, pos, k) ==
    [h EXCEPT ![vec.data.buf].slots =
        IF pos + 2 <= vec.size
        THEN IF ShiftByMove THEN MoveForward(@, pos + 2, vec.size, pos + 1, k)
             ELSE CopyForward(@, pos + 2, vec.size, pos + 1, k)
        ELSE @]

\* the shift of Erase: std::move or std::copy of [pos + 1, end) to pos, k assignments done
ShiftLeft(h, vec, pos, k) ==
    [h EXCEPT ![vec.data.buf].slots =
        IF ShiftByMove THEN MoveForward(@, pos + 1, vec.size, pos, k)
        ELSE CopyForward(@, pos + 1, vec.size, pos, k)]

\* Vector::Erase(pos); fail = "shift" (after k assignments) | "none"
EraseCall(vec, h, pos, fail, k) ==
    CASE fail = "shift" -> Thrown(vec, Mem(ShiftLeft(h, vec, pos, k)))
      [] OTHER ->
           LET h1 == ShiftLeft(h, vec, pos, vec.size - pos - 1)
               \* std::destroy_at(std::prev(end())); --size_; return begin() + pos_index
               h2 == DestroyN(h1, vec.data.buf, vec.size - 1, 1)
           IN  Returned([vec EXCEPT !.size = @ - 1], Mem(h2),
                        [buf |-> vec.data.buf, idx |-> pos])

---------------------------------------------------------------------------
(* Vector: construction, copy and move *)

\* Vector(size_t size); fail = "alloc" | "ctor" | "none"
SizedCtorCall(h, n, fail) ==
    LET p  == AllocPtr(h, n)
        m1 == Allocate(Mem(h), p, n)
        d  == [buf |-> p, cap |-> n]
    IN  CASE fail = "alloc" -> Thrown(DeadVec, Mem(h))
          \* std::uninitialized_value_construct_n destroys what it made; ~RawMemory
          [] fail = "ctor" -> Thrown(DeadVec, RawDtor(d, m1))
          [] OTHER ->
               Returned([alive |-> TRUE, data |-> d, size |-> n],
                        [m1 EXCEPT !.heap =
                            IF n = 0 THEN @
                            ELSE [@ EXCEPT ![p].slots = [i \in 1..n |-> DefaultVal]]],
                        NoRet)

\* a copy construction that takes the buffer of the source for its own
CopyCtorShares(other, h, fail) ==
    CASE fail \in {"alloc", "copy"} -> Thrown(DeadVec, Mem(h))
      [] OTHER -> Returned([alive |-> TRUE, data |-> other.data, size |-> other.size],
                           Mem(h), NoRet)

\* Vector(const Vector& other); fail = "alloc" | "copy" | "none"
CopyCtorCall(other, h, fail) ==
    LET n  == other.size
        p  == AllocPtr(h, n)
        m1 == Allocate(Mem(h), p, n)
        d  == [buf |-> p, cap |-> n]
    IN  CASE fail = "alloc" -> Thrown(DeadVec, Mem(h))
          \* std::uninitialized_copy_n destroys what it made; ~RawMemory
          [] fail = "copy" -> Thrown(DeadVec, RawDtor(d, m1))
          [] OTHER ->
               Returned([alive |-> TRUE, data |-> d, size |-> n],
                        [m1 EXCEPT !.heap = UninitCopy(@, other.data.buf, 0, n, p, 0)],
                        NoRet)

\* Vector::Swap(other): <<this, other>> afterwards
VectorSwap(this, other) ==
    LET sw == RawSwap(this.data, other.data)
    IN  << [this EXCEPT !.data = sw[1], !.size = other.size],
           [other EXCEPT !.data = sw[2], !.size = this.size] >>

\* a copy assignment that destroys the elements of the target before it
\* copies the source
CopyAssignDestroysFirst(vec, rhs, h, fail, k) ==
    LET h0 == DestroyN(h, vec.data.buf, 0, vec.size)
        v0 == [vec EXCEPT !.size = 0]
    IN  IF rhs.size > vec.data.cap
        THEN
          LET c == CopyCtorCall(rhs, h0, fail)
          IN  IF c.thrown THEN Thrown(v0, MemOf(c))
              ELSE LET sw == VectorSwap(v0, c.vec)
                   IN  Returned(sw[1], VectorDtor(sw[2], MemOf(c)), NoRet)
        ELSE
          CASE fail \in {"assign", "copy"} -> Thrown(v0, Mem(h0))
            [] OTHER ->
                 Returned([vec EXCEPT !.size = rhs.size],
                          Mem(UninitCopy(h0, rhs.data.buf, 0, rhs.size, vec.data.buf, 0)),
                          NoRet)

\* Vector::operator=(const Vector& rhs), this != &rhs;
\* fail = "alloc" | "copy" | "assign" (of element k) | "none"
CopyAssignCall(vec, rhs, h, fail, k) ==
    IF rhs.size > vec.data.cap
    THEN
      \* Vector<T> rhs_copy(rhs); Swap(rhs_copy); and rhs_copy is destroyed
      LET c == CopyCtorCall(rhs, h, fail)
      IN  IF c.thrown THEN Thrown(vec, MemOf(c))
          ELSE LET sw == VectorSwap(vec, c.vec)
               IN  Returned(sw[1], VectorDtor(sw[2], MemOf(c)), NoRet)
    ELSE IF rhs.size < vec.size
    THEN
      CASE fail = "assign" ->
             Thrown(vec, Mem(CopyInto(h, rhs.data.buf, 0, k, vec.data.buf, 0)))
        [] OTHER ->
             LET h1 == CopyInto(h, rhs.data.buf, 0, rhs.size, vec.data.buf, 0)
                 h2 == DestroyN(h1, vec.data.buf, rhs.size, vec.size - rhs.size)
             IN  Returned([vec EXCEPT !.size = rhs.size], Mem(h2), NoRet)
    ELSE
      LET h1 == CopyInto(h, rhs.data.buf, 0, vec.size, vec.data.buf, 0)
      IN  CASE fail = "assign" ->
                 Thrown(vec, Mem(CopyInto(h, rhs.data.buf, 0, k, vec.data.buf, 0)))
            [] fail = "copy" -> Thrown(vec, Mem(h1))
            [] OTHER ->
                 Returned([vec EXCEPT !.size = rhs.size],
                          Mem(UninitCopy(h1, rhs.data.buf, vec.size, rhs.size - vec.size,
                                         vec.data.buf, vec.size)),
                          NoRet)

\* Vector(Vector&& other): data_(std::move(other.data_)),
\* size_(std::exchange(other.size_, 0)); <<this, other>> afterwards
MoveCtorCall(other) ==
    LET mv == RawMoveCtor(other.data)
    IN  << [alive |-> TRUE, data |-> mv[1], size |-> other.size],
           [other EXCEPT !.data = mv[2], !.size = 0] >>

\* a move assignment that forgets std::swap(size_, rhs.size_)
MoveAssignKeepSize(this, rhs) ==
    LET sw == RawSwap(this.data, rhs.data)
    IN  << [this EXCEPT !.data = sw[1]], [rhs EXCEPT !.data = sw[2]] >>

\* Vector::operator=(Vector&& rhs), this != &rhs: data_.Swap(rhs.data_);
\* std::swap(size_, rhs.size_); <<this, rhs>> afterwards
MoveAssignCall(this, rhs) ==
    LET sw == RawSwap(this.data, rhs.data)
    IN  << [this EXCEPT !.data = sw[1], !.size = rhs.size],
           [rhs EXCEPT !.data = sw[2], !.size = this.size] >>

---------------------------------------------------------------------------
(* The state machine: one action per public operation *)

FailIdx == 0..(lim - 1)

\* the record of the last call: the operation, its object and arguments, the
\* failure injected ("none": the call returned), and what the call reported
Note(op, v, other, arg, val, fail, r) ==
    [op |-> op, v |-> v, other |-> other, arg |-> arg,
     val |-> IF fail = "none" THEN val ELSE 0, fail |-> fail, ret |-> r.ret,
     realloc |-> op \in {"Reserve", "Resize", "PushBack", "Insert"}
                 /\ r.vec.data.buf # vecs[v].data.buf, liveFreed |-> r.liveFreed, dfree |-> r.dfree]

NoCall ==
    [op |-> "init", v |-> "-", other |-> "-", arg |-> 0, val |-> 0, fail |-> "none",
     ret |-> NoRet, realloc |-> FALSE, liveFreed |-> FALSE, dfree |-> FALSE]

Quiet(h) == Returned(DeadVec, Mem(h), NoRet)

Fresh ==
    /\ vecs = [v \in VecIds |-> EmptyVec]
    /\ raws = [r \in RawIds |-> [alive |-> TRUE, mem |-> EmptyRaw]]
    /\ heap = [b \in BufIds |-> FreeBlock]
    /\ log = <<>>
    /\ last = NoCall

Start == T \in TypeKinds /\ Fresh

\* a call that meets the failure fail uses up one of the failures injected
Charge(fail) ==
    IF fail = "none" THEN faults' = faults ELSE faults < MaxFaults /\ faults' = faults + 1

\* a growth to ncap slots can be served within the bounds of the model
Room(ncap) == ncap <= lim /\ CanAllocate(heap, ncap)

\* the failures a growth event sized for vec can meet
GrowthFails(vec, fail, k) ==
    \/ fail = "alloc" /\ k = 0
    \/ fail = "migrate" /\ k < vec.size /\ MigrateCanFail

\* the failures EmplaceBack can meet
EmplaceBackFails(vec, fail, k) ==
    \/ fail = "none" /\ k = 0
    \/ fail = "ctor" /\ k = 0
    \/ vec.size = vec.data.cap /\ GrowthFails(vec, fail, k)

\* the failures Emplace can meet
EmplaceFails(vec, pos, fail, k) ==
    IF pos = vec.size THEN EmplaceBackFails(vec, fail, k)
    ELSE IF vec.size = vec.data.cap
    THEN \/ fail \in {"none", "ctor"} /\ k = 0
         \/ GrowthFails(vec, fail, k)
    ELSE \/ fail \in {"none", "ctor"} /\ k = 0
         \/ fail = "movelast" /\ k = 0 /\ ~T.nmc
         \/ fail = "shift" /\ k < vec.size - 1 - pos /\ ~T.nma
         \/ fail = "assign" /\ k = 0 /\ ~T.nma

DefaultConstruct(v) ==
    /\ ~vecs[v].alive
    /\ vecs' = [vecs EXCEPT ![v] = EmptyVec]
    /\ last' = Note("Vector", v, "-", 0, 0, "none", Quiet(heap))
    /\ faults' = faults
    /\ UNCHANGED <<T, lim, log, raws, heap>>

SizedConstruct(v) ==
    /\ ~vecs[v].alive
    /\ \E n \in 0..lim, fail \in {"none", "alloc", "ctor"} :
         /\ CanAllocate(heap, n)
         /\ fail # "none" => n > 0
         /\ Charge(fail)
         /\ \E r \in {SizedCtorCall(heap, n, fail)} :
                /\ vecs' = [vecs EXCEPT ![v] = r.vec]
                /\ heap' = r.heap
                /\ last' = Note("VectorN", v, "-", n, 0, fail, r)
    /\ UNCHANGED <<T, lim, log, raws>>

CopyConstruct(v) ==
    /\ ~vecs[v].alive
    /\ T.cc
    /\ \E o \in VecIds \ {v}, fail \in {"none", "alloc", "copy"} :
         /\ vecs[o].alive
         /\ CanAllocate(heap, vecs[o].size)
         /\ fail # "none" => vecs[o].size > 0
         /\ Charge(fail)
         /\ \E r \in {CopyCtorCall(vecs[o], heap, fail)} :
                /\ vecs' = [vecs EXCEPT ![v] = r.vec]
                /\ heap' = r.heap
                /\ last' = Note("VectorCopy", v, o, 0, 0, fail, r)
    /\ UNCHANGED <<T, lim, log, raws>>

MoveConstruct(v) ==
    /\ ~vecs[v].alive
    /\ \E o \in VecIds \ {v} :
         /\ vecs[o].alive
         /\ \E mv \in {MoveCtorCall(vecs[o])} :
                vecs' = [vecs EXCEPT ![v] = mv[1], ![o] = mv[2]]
         /\ last' = Note("VectorMove", v, o, 0, 0, "none", Quiet(heap))
         /\ faults' = faults
    /\ UNCHANGED <<T, lim, log, raws, heap>>

CopyAssign(v) ==
    /\ vecs[v].alive
    /\ T.cc
    /\ \E o \in VecIds, fail \in {"none", "alloc", "copy", "assign"}, k \in FailIdx :
         /\ vecs[o].alive
         /\ IF o = v THEN fail = "none" /\ k = 0
            ELSE IF vecs[o].size > vecs[v].data.cap
            THEN CanAllocate(heap, vecs[o].size) /\ fail # "assign" /\ k = 0
            ELSE \/ fail = "none" /\ k = 0
                 \/ fail = "assign" /\ k < vecs[o].size /\ k < vecs[v].size
                 \/ fail = "copy" /\ k = 0 /\ vecs[o].size > vecs[v].size
         /\ Charge(fail)
         /\ \E r \in {IF o = v THEN Returned(vecs[v], Mem(heap), NoRet)
                     ELSE CopyAssignCall(vecs[v], vecs[o], heap, fail, k)} :
                /\ vecs' = [vecs EXCEPT ![v] = r.vec]
                /\ heap' = r.heap
                /\ last' = Note("CopyAssign", v, o, 0, 0, fail, r)
    /\ UNCHANGED <<T, lim, log, raws>>

MoveAssign(v) ==
    /\ vecs[v].alive
    /\ \E o \in VecIds :
         /\ vecs[o].alive
         /\ \E mv \in {IF o = v THEN <<vecs[v], vecs[o]>>
                      ELSE MoveAssignCall(vecs[v], vecs[o])} :
                vecs' = [vecs EXCEPT ![v] = mv[1], ![o] = IF o = v THEN mv[1] ELSE mv[2]]
         /\ last' = Note("MoveAssign", v, o, 0, 0, "none", Quiet(heap))
         /\ faults' = faults
    /\ UNCHANGED <<T, lim, log, raws, heap>>

Swap(v) ==
    /\ vecs[v].alive
    /\ \E o \in VecIds \ {v} :
         /\ vecs[o].alive
         /\ \E sw \in {VectorSwap(vecs[v], vecs[o])} :
                vecs' = [vecs EXCEPT ![v] = sw[1], ![o] = sw[2]]
         /\ last' = Note("Swap", v, o, 0, 0, "none", Quiet(heap))
         /\ faults' = faults
    /\ UNCHANGED <<T, lim, log, raws, heap>>

Destroy(v) ==
    /\ vecs[v].alive
    /\ \E m \in {VectorDtor(vecs[v], Mem(heap))} :
           /\ vecs' = [vecs EXCEPT ![v] = DeadVec]
           /\ heap' = m.heap
           /\ last' = Note("~Vector", v, "-", 0, 0, "none", Returned(DeadVec, m, NoRet))
           /\ faults' = faults
    /\ UNCHANGED <<T, lim, log, raws>>

ReserveStep(v) ==
    /\ vecs[v].alive
    /\ \E n \in 0..lim, fail \in {"none", "alloc", "migrate"}, k \in FailIdx :
         /\ n > vecs[v].data.cap => CanAllocate(heap, n)
         /\ \/ fail = "none" /\ k = 0
            \/ n > vecs[v].data.cap /\ GrowthFails(vecs[v], fail, k)
         /\ Charge(fail)
         /\ \E r \in {ReserveCall(vecs[v], heap, n, fail, k)} :
                /\ vecs' = [vecs EXCEPT ![v] = r.vec]
                /\ heap' = r.heap
                /\ last' = Note("Reserve", v, "-", n, 0, fail, r)
    /\ UNCHANGED <<T, lim, raws>>

Reserve(v) == ReserveStep(v) /\ UNCHANGED log

Resize(v) ==
    /\ vecs[v].alive
    /\ \E n \in 0..lim, fail \in {"none", "alloc", "migrate", "ctor"}, k \in FailIdx :
         /\ n > vecs[v].data.cap => CanAllocate(heap, n)
         /\ \/ fail = "none" /\ k = 0
            \/ fail = "ctor" /\ k = 0 /\ n > vecs[v].size
            \/ n > vecs[v].data.cap /\ GrowthFails(vecs[v], fail, k)
         /\ Charge(fail)
         /\ \E r \in {ResizeCall(vecs[v], heap, n, fail, k)} :
                /\ vecs' = [vecs EXCEPT ![v] = r.vec]
                /\ heap' = r.heap
                /\ last' = Note("Resize", v, "-", n, 0, fail, r)
    /\ UNCHANGED <<T, lim, log, raws>>

\* PushBack(value) is EmplaceBack(std::forward<F>(value))
PushBackStep(v) ==
    /\ vecs[v].alive
    /\ vecs[v].size = vecs[v].data.cap => Room(NewCapacity(vecs[v].size))
    /\ \E fail \in {"none", "alloc", "ctor", "migrate"}, k \in FailIdx, val \in Values :
         /\ EmplaceBackFails(vecs[v], fail, k)
         /\ fail # "none" => val = DefaultVal
         /\ Charge(fail)
         /\ \E r \in {EmplaceBackCall(vecs[v], heap, val, fail, k)} :
                /\ vecs' = [vecs EXCEPT ![v] = r.vec]
                /\ heap' = r.heap
                /\ last' = Note("PushBack", v, "-", vecs[v].size, val, fail, r)
    /\ UNCHANGED <<T, lim, raws>>

PushBack(v) == PushBackStep(v) /\ UNCHANGED log

\* PushBack, with the values of the calls that returned kept in log
AppendLogged(v) ==
    /\ PushBackStep(v)
    /\ log' = IF last'.fail = "none" THEN Append(log, last'.val) ELSE log

\* Reserve as the first call on an empty vector; log starts with the argument
\* of the call and the storage the vector owns after it
ReserveFirst(v) ==
    /\ log = <<>>
    /\ ReserveStep(v)
    /\ log' = <<[arg |-> last'.arg, data |-> vecs'[v].data]>>

\* PushBack after that Reserve; log is extended with the storage the vector
\* owns after the call
AppendAfterReserve(v) ==
    /\ log # <<>>
    /\ PushBackStep(v)
    /\ log' = Append(log, [arg |-> last'.arg, data |-> vecs'[v].data])

PopBack(v) ==
    /\ vecs[v].alive
    /\ vecs[v].size > 0
    /\ \E r \in {PopBackCall(vecs[v], heap)} :
           /\ vecs' = [vecs EXCEPT ![v] = r.vec]
           /\ heap' = r.heap
           /\ last' = Note("PopBack", v, "-", 0, 0, "none", r)
           /\ faults' = faults
    /\ UNCHANGED <<T, lim, log, raws>>

\* Insert(pos, value) is Emplace(pos, std::forward<F>(value))
Insert(v) ==
    /\ vecs[v].alive
    /\ vecs[v].size = vecs[v].data.cap => Room(NewCapacity(vecs[v].size))
    /\ \E pos \in 0..vecs[v].size,
          fail \in {"none", "alloc", "ctor", "migrate", "movelast", "shift", "assign"},
          k \in FailIdx, val \in Values :
         /\ EmplaceFails(vecs[v], pos, fail, k)
         /\ fail # "none" => val = DefaultVal
         /\ Charge(fail)
         /\ \E r \in {EmplaceCall(vecs[v], heap, pos, val, fail, k)} :
                /\ vecs' = [vecs EXCEPT ![v] = r.vec]
                /\ heap' = r.heap
                /\ last' = Note("Insert", v, "-", pos, val, fail, r)
    /\ UNCHANGED <<T, lim, log, raws>>

Erase(v) ==
    /\ vecs[v].alive
    /\ \E pos \in 0..(vecs[v].size - 1), fail \in {"none", "shift"}, k \in FailIdx :
         /\ \/ fail = "none" /\ k = 0
            \/ fail = "shift" /\ k < vecs[v].size - pos - 1 /\ (ShiftByMove => ~T.nma)
         /\ Charge(fail)
         /\ \E r \in {EraseCall(vecs[v], heap, pos, fail, k)} :
                /\ vecs' = [vecs EXCEPT ![v] = r.vec]
                /\ heap' = r.heap
                /\ last' = Note("Erase", v, "-", pos, 0, fail, r)
    /\ UNCHANGED <<T, lim, log, raws>>

\* v.PushBack(v[i]); the record of the call keeps i as val
PushBackSelf(v) ==
    /\ vecs[v].alive
    /\ vecs[v].size = vecs[v].data.cap => Room(NewCapacity(vecs[v].size))
    /\ \E i \in 0..(vecs[v].size - 1) :
         \E r \in {EmplaceBackCall(vecs[v], heap, Get(heap, vecs[v].data.buf, i), "none", 0)} :
                /\ vecs' = [vecs EXCEPT ![v] = r.vec]
                /\ heap' = r.heap
                /\ last' = Note("PushBackSelf", v, "-", vecs[v].size, i, "none", r)
    /\ faults' = faults
    /\ UNCHANGED <<T, lim, log, raws>>

\* v.Insert(v.begin() + pos, v[i]); the record of the call keeps i as val
InsertSelf(v) ==
    /\ vecs[v].alive
    /\ vecs[v].size = vecs[v].data.cap => Room(NewCapacity(vecs[v].size))
    /\ \E pos \in 0..vecs[v].size, i \in 0..(vecs[v].size - 1) :
         \E r \in {EmplaceRefCall(vecs[v], heap, pos, i, "none", 0)} :
                /\ vecs' = [vecs EXCEPT ![v] = r.vec]
                /\ heap' = r.heap
                /\ last' = Note("InsertSelf", v, "-", pos, i, "none", r)
    /\ faults' = faults
    /\ UNCHANGED <<T, lim, log, raws>>

\* v[i] = value through the reference operator[] returns
Write(v) ==
    /\ vecs[v].alive
    /\ \E i \in 0..(vecs[v].size - 1), val \in Values :
         /\ heap' = Put(heap, vecs[v].data.buf, i, val)
         /\ last' = Note("Write", v, "-", i, val, "none",
                         Returned(vecs[v], Mem(heap), NoRet))
    /\ faults' = faults
    /\ UNCHANGED <<T, lim, log, raws, vecs>>

Init == Start /\ lim = MaxCap /\ faults = 0

\* a T of any combination of capabilities
InitErase == T \in AllTypeKinds /\ Fresh /\ lim = MaxCap /\ faults = 0

\* a copyable T, and one failure injected at most
InitCopy == Start /\ T.cc /\ lim = CopyCap /\ faults = MaxFaults - 1

InitPair == Start /\ lim = PairCap /\ faults = 0

\* no failure is injected while a vector is only appended to
InitAppend == Start /\ lim = AppendCap /\ faults = MaxFaults

---------------------------------------------------------------------------
(* RawMemory objects on their own *)

RawNote(op, r, other, n, fail, m) ==
    [op |-> op, v |-> r, other |-> other, arg |-> n, val |-> 0, fail |-> fail,
     ret |-> NoRet, realloc |-> FALSE, liveFreed |-> m.liveFreed, dfree |-> m.dfree]

\* RawMemory(size_t capacity): buffer_(Allocate(capacity)), capacity_(capacity)
RawConstruct(r) ==
    /\ ~raws[r].alive
    /\ \E n \in 0..lim, fail \in {"none", "alloc"} :
         /\ CanAllocate(heap, n)
         /\ fail = "alloc" => n > 0
         /\ Charge(fail)
         /\ \E p \in {AllocPtr(heap, n)} :
              IF fail = "alloc"
              THEN /\ UNCHANGED <<raws, heap>>
                   /\ last' = RawNote("RawMemoryN", r, "-", n, fail, Mem(heap))
              ELSE /\ raws' = [raws EXCEPT ![r] = [alive |-> TRUE,
                                                   mem |-> [buf |-> p, cap |-> n]]]
                   /\ heap' = Allocate(Mem(heap), p, n).heap
                   /\ last' = RawNote("RawMemoryN", r, "-", n, fail, Mem(heap))
    /\ UNCHANGED <<T, lim, log, vecs>>

RawMoveConstruct(r) ==
    /\ ~raws[r].alive
    /\ \E o \in RawIds \ {r} :
         /\ raws[o].alive
         /\ \E mv \in {RawMoveCtor(raws[o].mem)} :
              raws' = [raws EXCEPT ![r] = [alive |-> TRUE, mem |-> mv[1]], ![o].mem = mv[2]]
         /\ last' = RawNote("RawMemoryMove", r, o, 0, "none", Mem(heap))
    /\ UNCHANGED <<T, lim, log, vecs, heap, faults>>

\* RawMemory::operator=(RawMemory&&): if (this != &rhs) { ... } return *this;
RawMoveAssignment(r) ==
    /\ raws[r].alive
    /\ \E o \in RawIds :
         /\ raws[o].alive
         /\ IF o = r
            THEN /\ UNCHANGED <<raws, heap>>
                 /\ last' = RawNote("RawMoveAssign", r, o, 0, "none", Mem(heap))
            ELSE \E a \in {RawMoveAssign(raws[r].mem, raws[o].mem, Mem(heap))} :
                   /\ raws' = [raws EXCEPT ![r].mem = a.objs[1], ![o].mem = a.objs[2]]
                   /\ heap' = a.m.heap
                   /\ last' = RawNote("RawMoveAssign", r, o, 0, "none", a.m)
    /\ UNCHANGED <<T, lim, log, vecs, faults>>

RawSwapping(r) ==
    /\ raws[r].alive
    /\ \E o \in RawIds \ {r} :
         /\ raws[o].alive
         /\ \E sw \in {RawSwap(raws[r].mem, raws[o].mem)} :
              raws' = [raws EXCEPT ![r].mem = sw[1], ![o].mem = sw[2]]
         /\ last' = RawNote("RawSwap", r, o, 0, "none", Mem(heap))
    /\ UNCHANGED <<T, lim, log, vecs, heap, faults>>

RawDestroy(r) ==
    /\ raws[r].alive
    /\ \E m \in {RawDtor(raws[r].mem, Mem(heap))} :
         /\ raws' = [raws EXCEPT ![r] = DeadRawObj]
         /\ heap' = m.heap
         /\ last' = RawNote("~RawMemory", r, "-", 0, "none", m)
    /\ UNCHANGED <<T, lim, log, vecs, faults>>

\* the operations on one vector
Alone(v) ==
    \/ DefaultConstruct(v)
    \/ SizedConstruct(v)
    \/ Destroy(v)
    \/ Reserve(v)
    \/ Resize(v)
    \/ PushBack(v)
    \/ PopBack(v)
    \/ Insert(v)
    \/ Erase(v)

\* the operations that take a second vector
Paired(v) ==
    \/ CopyConstruct(v)
    \/ MoveConstruct(v)
    \/ CopyAssign(v)
    \/ MoveAssign(v)
    \/ Swap(v)

Next == Alone("a")

NextPair == \E v \in VecIds : Alone(v) \/ Paired(v)

NextAppend == AppendLogged("a")

NextRaw ==
    \E r \in RawIds :
        \/ RawConstruct(r)
        \/ RawMoveConstruct(r)
        \/ RawMoveAssignment(r)
        \/ RawSwapping(r)
        \/ RawDestroy(r)

\* one vector, every operation on it alone
Spec == Init /\ [][Next]_vars

\* two vectors, every operation
SpecPair == InitPair /\ [][NextPair]_vars

\* one vector, appended to from empty, no failure
SpecAppend == InitAppend /\ [][NextAppend]_vars

\* two RawMemory objects
SpecRaw == Init /\ [][NextRaw]_vars

NextReserved == ReserveFirst("a") \/ AppendAfterReserve("a")

\* one empty vector: one Reserve, then appends, no failure
SpecReserved == InitAppend /\ [][NextReserved]_vars

\* the operations that copy a vector and the ones that change one
Copying(v) ==
    \/ SizedConstruct(v)
    \/ CopyConstruct(v)
    \/ CopyAssign(v)
    \/ Destroy(v)
    \/ Reserve(v)
    \/ Resize(v)
    \/ PushBack(v)
    \/ Insert(v)
    \/ Erase(v)
    \/ Write(v)

NextCopy == \E v \in VecIds : Copying(v)

\* two vectors of a copyable T, copied from one another and changed
SpecCopy == InitCopy /\ [][NextCopy]_vars

NextErase == PushBack("a") \/ Erase("a")

\* one vector of a T of any capabilities, appended to and erased from
SpecErase == InitErase /\ [][NextErase]_vars

NextSelf == PushBack("a") \/ PopBack("a") \/ PushBackSelf("a") \/ InsertSelf("a")

\* one vector, and insertions of its own elements into it
SpecSelf == Init /\ [][NextSelf]_vars

NextGrow == PushBack("a") \/ Insert("a")

\* one vector, grown from empty by appends and positional inserts, no failure
SpecGrow == InitAppend /\ [][NextGrow]_vars

---------------------------------------------------------------------------
(* The claims *)

\* the sequence s with x inserted before 0-based position p
InsertAt(s, p, x) == SubSeq(s, 1, p) \o <<x>> \o SubSeq(s, p + 1, Len(s))

\* the sequence s without the element at 0-based position p
RemoveAt(s, p) == SubSeq(s, 1, p) \o SubSeq(s, p + 2, Len(s))

\* size <= capacity, the buffer has capacity slots, the slots below size hold
\* live objects and the slots from size on hold none
WellFormed(h, vec) ==
    /\ 0 <= vec.size /\ vec.size <= vec.data.cap
    /\ vec.data.cap > 0 =>
         /\ vec.data.buf # Null
         /\ h[vec.data.buf].alloc
         /\ Len(h[vec.data.buf].slots) = vec.data.cap
         /\ \A i \in 1..vec.data.cap : (i <= vec.size) <=> (h[vec.data.buf].slots[i] # NoObj)

\* C1: between public operations, also after one that propagated a failure,
\* every vector has 0 <= size <= capacity, live objects exactly in [0, size)
\* and no live object in [size, capacity).
C1_SizeAndLiveness == \A v \in VecIds : vecs[v].alive => WellFormed(heap, vecs[v])

\* C2: RawMemory a = move(b), a and b distinct: a holds b's former handle and
\* capacity, b is empty (null handle, capacity 0), a's former storage is
\* released, and no storage is ever released twice.
C2_MoveAssignTransfers ==
    /\ [][(last'.op = "RawMoveAssign" /\ last'.v # last'.other) =>
            /\ raws'[last'.v].mem = raws[last'.other].mem
            /\ raws'[last'.other].mem = EmptyRaw
            /\ raws[last'.v].mem.buf # Null => ~heap'[raws[last'.v].mem.buf].alloc]_vars
    /\ [](~last.dfree)

\* a step that is a move construction or a move assignment from another vector
MoveStep == last'.op \in {"VectorMove", "MoveAssign"} /\ last'.v # last'.other

\* the target of a move ends with the source's former buffer, capacity, size
\* and elements, and the source no longer owns the buffer it had
MoveTransfers ==
    /\ vecs'[last'.v].size = vecs[last'.other].size
    /\ vecs'[last'.v].data = vecs[last'.other].data
    /\ ElemsIn(heap', vecs'[last'.v]) = ElemsIn(heap, vecs[last'.other])
    /\ vecs[last'.other].data.buf # Null =>
         vecs'[last'.other].data.buf # vecs[last'.other].data.buf

\* C3, as claimed: move construction and move assignment both leave the
\* source with size 0 and without its former storage, and the target with
\* the source's former elements, size and capacity.
C3_SourceEmptied ==
    [][MoveStep => (MoveTransfers /\ vecs'[last'.other].size = 0)]_vars

\* C3, amended: the target ends with the source's former elements, size and
\* capacity and the source without its former storage; move construction
\* leaves the source empty (size 0, capacity 0), move assignment leaves it
\* with the target's former buffer, capacity, size and elements.
C3_SourceExchanged ==
    [][MoveStep =>
        /\ MoveTransfers
        /\ IF last'.op = "VectorMove"
           THEN vecs'[last'.other].size = 0 /\ vecs'[last'.other].data = EmptyRaw
           ELSE /\ vecs'[last'.other].size = vecs[last'.v].size
                /\ vecs'[last'.other].data = vecs[last'.v].data
                /\ ElemsIn(heap', vecs'[last'.other]) = ElemsIn(heap, vecs[last'.v])]_vars

\* a move assignment onto a non-empty target from a non-empty source
C3_Witness ==
    /\ last.op = "MoveAssign" /\ last.v # last.other
    /\ vecs[last.v].size > 0 /\ vecs[last.other].size > 0

\* the capacity of v is smaller after the step than before it
Shrinks(v) ==
    vecs[v].alive /\ vecs'[v].alive /\ vecs'[v].data.cap < vecs[v].data.cap

\* the step is a copy assignment to v that builds a copy and swaps it in
CopyAndSwap(v) ==
    /\ last'.op = "CopyAssign" /\ last'.v = v /\ last'.other # v
    /\ vecs[last'.other].size > vecs[v].data.cap

\* C4, as claimed: the capacity of a vector never decreases from one
\* operation to the next, except in a copy assignment that takes the
\* build-a-copy-and-swap branch.
C4_ShrinksOnlyInCopySwap ==
    [][\A v \in VecIds : Shrinks(v) => CopyAndSwap(v)]_vars

\* C4, amended: the capacity of a vector never decreases from one operation
\* to the next, except in a copy assignment that takes the copy-and-swap
\* branch, in a move assignment and in Swap, which exchange the buffers of
\* the two vectors, and in a move construction, which empties its source.
C4_ShrinksOnlyInExchange ==
    [][\A v \in VecIds : Shrinks(v) =>
          \/ CopyAndSwap(v)
          \/ last'.op \in {"MoveAssign", "Swap"} /\ v \in {last'.v, last'.other}
          \/ last'.op = "VectorMove" /\ v = last'.other]_vars

\* a move assignment that left its target with less capacity than it had
C4_Witness ==
    /\ last.op = "MoveAssign" /\ last.v # last.other
    /\ vecs[last.v].data.cap < vecs[last.other].data.cap

\* C5: for a T migrated by copy, a failing copy of an existing element in
\* the migration of Reserve, PushBack or Insert leaves the vector with its
\* old buffer, size, capacity and element values.
C5_CopyMigrationRollsBack ==
    [][(last'.fail = "migrate" /\ T.cc /\ ~T.nmc) =>
          /\ last'.op \in {"Reserve", "Resize", "PushBack", "Insert"}
          /\ vecs'[last'.v] = vecs[last'.v]
          /\ heap'[vecs[last'.v].data.buf].alloc
          /\ ElemsIn(heap', vecs'[last'.v]) = ElemsIn(heap, vecs[last'.v])]_vars

\* an insertion in the middle of a full vector whose migration failed
C5_Witness ==
    /\ last.op = "Insert" /\ last.fail = "migrate" /\ T.cc /\ ~T.nmc
    /\ last.arg = 1 /\ vecs[last.v].size = 2 /\ vecs[last.v].data.cap = 2

\* C6: no buffer is released while one of its slots holds a live object, on
\* the success path or while a failure propagates.
C6_NoLiveObjectReleased == ~last.liveFreed

\* C7: Insert before end without growth: when the construction of the
\* temporary fails, no element has been moved, and size and the values of
\* the elements are as before the call.
C7_TemporaryFailsBeforeShift ==
    [][(/\ last'.op = "Insert" /\ last'.fail = "ctor"
        /\ last'.arg < vecs[last'.v].size
        /\ vecs[last'.v].size < vecs[last'.v].data.cap) =>
          /\ vecs'[last'.v].size = vecs[last'.v].size
          /\ ElemsIn(heap', vecs'[last'.v]) = ElemsIn(heap, vecs[last'.v])]_vars

\* C8: a successful Insert of V at p in [a0..an) yields
\* [a0..a(p-1), V, ap..an), size n+1, and returns position p of the current
\* buffer, with or without growth.
C8_InsertPlacesValue ==
    [][(last'.op = "Insert" /\ last'.fail = "none") =>
          /\ ElemsIn(heap', vecs'[last'.v])
               = InsertAt(ElemsIn(heap, vecs[last'.v]), last'.arg, last'.val)
          /\ vecs'[last'.v].size = vecs[last'.v].size + 1
          /\ last'.ret = [buf |-> vecs'[last'.v].data.buf, idx |-> last'.arg]]_vars

\* an insertion in the middle of a full vector, which grew
C8_Witness ==
    /\ last.op = "Insert" /\ last.fail = "none" /\ last.realloc
    /\ last.arg = 1 /\ vecs[last.v].size = 3

\* C9: Erase at p < n of [a0..an) yields [a0..a(p-1), a(p+1)..an), size n-1,
\* the same capacity, and returns position p.
C9_EraseRemovesElement ==
    [][(last'.op = "Erase" /\ last'.fail = "none") =>
          /\ ElemsIn(heap', vecs'[last'.v])
               = RemoveAt(ElemsIn(heap, vecs[last'.v]), last'.arg)
          /\ vecs'[last'.v].size = vecs[last'.v].size - 1
          /\ vecs'[last'.v].data = vecs[last'.v].data
          /\ last'.ret = [buf |-> vecs'[last'.v].data.buf, idx |-> last'.arg]]_vars

\* an erasure in the middle of three elements
C9_Witness ==
    /\ last.op = "Erase" /\ last.fail = "none"
    /\ last.arg = 1 /\ vecs[last.v].size = 2

\* C10: from an empty vector, after k successful appends of v1..vk the size
\* is k and element i is v(i+1), whatever the reallocations and the migration.
C10_AppendsInOrder ==
    /\ vecs["a"].size = Len(log)
    /\ ElemsIn(heap, vecs["a"]) = log

\* five appends, through four reallocations, by a T that is migrated by copy
C10_Witness ==
    /\ Len(log) = 5 /\ vecs["a"].data.cap = 8 /\ ~ByMove /\ log[1] # log[2]

\* the least power of two that is at least n, and 0 for 0
CapacityFor(n) ==
    IF n = 0 THEN 0
    ELSE CHOOSE c \in {2^i : i \in 0..AppendCap} :
            c >= n /\ \A d \in {2^i : i \in 0..AppendCap} : d >= n => c <= d

\* C11: an append or positional insert allocates a new buffer if and only if
\* size = capacity before the call; the new capacity is then 1 when the old
\* one is 0 and twice the old one otherwise; a vector grown from empty
\* therefore has capacity 0, 1, 2, 4, 4, 8 at sizes 0, 1, 2, 3, 4, 5.
C11_GrowsByDoubling ==
    /\ [][(last'.op \in {"PushBack", "Insert"} /\ last'.fail = "none") =>
            /\ (vecs'[last'.v].data.buf # vecs[last'.v].data.buf)
                  <=> (vecs[last'.v].size = vecs[last'.v].data.cap)
            /\ vecs[last'.v].size = vecs[last'.v].data.cap =>
                  vecs'[last'.v].data.cap =
                      IF vecs[last'.v].data.cap = 0 THEN 1 ELSE 2 * vecs[last'.v].data.cap
            /\ vecs[last'.v].size < vecs[last'.v].data.cap =>
                  vecs'[last'.v].data = vecs[last'.v].data]_vars
    /\ [](vecs["a"].data.cap = CapacityFor(vecs["a"].size))

\* the fifth element, appended to a full vector of four: capacity 8
C11_Witness ==
    /\ last.op = "PushBack" /\ last.fail = "none" /\ last.realloc
    /\ vecs["a"].size = 5 /\ vecs["a"].data.cap = 8

\* C12: Reserve(n): when n <= capacity nothing changes (no allocation, the
\* same buffer, size and elements); when n > capacity the capacity becomes
\* exactly n; in both cases the size and the value and order of every
\* element are unchanged.
C12_ReserveKeepsElements ==
    [][(last'.op = "Reserve" /\ last'.fail = "none") =>
          /\ vecs'[last'.v].size = vecs[last'.v].size
          /\ ElemsIn(heap', vecs'[last'.v]) = ElemsIn(heap, vecs[last'.v])
          /\ IF last'.arg <= vecs[last'.v].data.cap
             THEN vecs'[last'.v] = vecs[last'.v] /\ heap' = heap
             ELSE vecs'[last'.v].data.cap = last'.arg]_vars

\* a Reserve(4) that moved two different elements to a new buffer
C12_Witness ==
    /\ last.op = "Reserve" /\ last.fail = "none" /\ last.realloc /\ last.arg = 4
    /\ vecs[last.v].size = 2 /\ ElemsIn(heap, vecs[last.v]) = <<2, 1>>

\* C13: after Reserve(n) on an empty vector, the next k <= n appends allocate
\* nothing: after each of them the capacity and the buffer owned are those
\* right after the Reserve.
C13_NoAllocationWithinReserve ==
    \A i \in 2..Len(log) : i - 1 <= log[1].arg => log[i].data = log[1].data

\* Reserve(3), three appends in the buffer reserved, and a fourth that grew
C13_Witness ==
    /\ Len(log) = 5 /\ log[1].arg = 3 /\ log[1].data.cap = 3
    /\ log[4].data = log[1].data /\ log[5].data # log[1].data

\* the call went through EmplaceBack: PushBack, or Insert at end()
ThroughEmplaceBack ==
    \/ last'.op = "PushBack"
    \/ last'.op = "Insert" /\ last'.arg = vecs[last'.v].size

\* C14: EmplaceBack/PushBack, growing or not: when the constructor of the new
\* element fails, the size, the capacity, the buffer owned and every element
\* value are as before the call.
C14_NewElementFailureIsAtomic ==
    [][(ThroughEmplaceBack /\ last'.fail = "ctor") =>
          /\ vecs'[last'.v] = vecs[last'.v]
          /\ heap' = heap
          /\ ElemsIn(heap', vecs'[last'.v]) = ElemsIn(heap, vecs[last'.v])]_vars

\* a PushBack on a full vector of two whose new element failed to construct
C14_Witness ==
    /\ last.op = "PushBack" /\ last.fail = "ctor"
    /\ vecs[last.v].size = 2 /\ vecs[last.v].data.cap = 2
    /\ ElemsIn(heap, vecs[last.v]) = <<1, 2>>

\* C15: copy assignment target = source with source.size > target.capacity:
\* when the copy construction of a source element fails, the target has the
\* size, the element values and the capacity it had, and the source is
\* unchanged.
C15_CopyAssignRollsBack ==
    [][(/\ last'.op = "CopyAssign" /\ last'.fail = "copy" /\ last'.v # last'.other
        /\ vecs[last'.other].size > vecs[last'.v].data.cap) =>
          /\ vecs'[last'.v] = vecs[last'.v]
          /\ ElemsIn(heap', vecs'[last'.v]) = ElemsIn(heap, vecs[last'.v])
          /\ vecs'[last'.other] = vecs[last'.other]
          /\ ElemsIn(heap', vecs'[last'.other]) = ElemsIn(heap, vecs[last'.other])]_vars

\* a target of one element and capacity 1, a source of two, and a copy that failed
C15_Witness ==
    /\ last.op = "CopyAssign" /\ last.fail = "copy" /\ last.v # last.other
    /\ vecs[last.v].size = 1 /\ vecs[last.v].data.cap = 1
    /\ vecs[last.other].size = 2

\* C16: Resize(n) on a vector of size s. n < s: the elements in [n, s) are
\* destroyed, the elements in [0, n) keep their values and the capacity is
\* unchanged. n > s: the elements in [0, s) keep their values, the slots in
\* [s, n) hold value-constructed elements, and the capacity grows only if n
\* exceeds it. The size is n afterwards, and it is assigned only after every
\* destruction and construction has succeeded.
C16_ResizeSetsSizeLast ==
    [][last'.op = "Resize" =>
        LET old == vecs[last'.v]
            new == vecs'[last'.v]
            n   == last'.arg
            s   == old.size
            was == ElemsIn(heap, old)
            now == ElemsIn(heap', new)
        IN  IF last'.fail = "none"
            THEN /\ new.size = n
                 /\ n < s =>
                      /\ new.data = old.data
                      /\ now = SubSeq(was, 1, n)
                      /\ \A i \in (n + 1)..s : heap'[new.data.buf].slots[i] = NoObj
                 /\ n > s =>
                      /\ SubSeq(now, 1, s) = was
                      /\ \A i \in (s + 1)..n : now[i] = DefaultVal
                      /\ IF n <= old.data.cap THEN new.data = old.data
                         ELSE new.data.cap = n
                 /\ n = s => new = old /\ now = was
            ELSE new.size = s]_vars

\* a Resize(3) of one element that had to grow the buffer
C16_Witness ==
    /\ last.op = "Resize" /\ last.fail = "none" /\ last.realloc /\ last.arg = 3
    /\ ElemsIn(heap, vecs[last.v]) = <<2, 1, 1>>

\* C17: allocation failure is atomic in every operation that can allocate
\* (sized and copy construction, copy assignment, Reserve, Resize, PushBack,
\* Insert): when the allocation of the new buffer fails, the size, the
\* capacity, the buffer owned and the element values are as before the call.
C17_AllocationFailureIsAtomic ==
    [][last'.fail = "alloc" =>
          /\ last'.op \in {"VectorN", "VectorCopy", "CopyAssign", "Reserve", "Resize",
                            "PushBack", "Insert"}
          /\ vecs' = vecs
          /\ heap' = heap]_vars

\* a Resize of one element beyond the capacity whose allocation failed
C17_Witness ==
    /\ last.op = "Resize" /\ last.fail = "alloc"
    /\ vecs[last.v].size = 1 /\ ElemsIn(heap, vecs[last.v]) = <<2>>

\* the step is a call that changes the vector it is made on
Mutation ==
    last'.op \in {"PushBack", "Insert", "Erase", "Resize", "Reserve", "Write", "CopyAssign"}

\* C18: after B is copy-constructed from A, B has the size and the element
\* values of A and a capacity equal to A's size; a mutation of B (append,
\* insert, erase, resize, element write, assignment), returning or not,
\* leaves the size, the capacity and the element values of A unchanged; A and
\* B never own the same buffer.
C18_CopyIsIndependent ==
    /\ [][(last'.op = "VectorCopy" /\ last'.fail = "none") =>
            /\ vecs'[last'.v].size = vecs[last'.other].size
            /\ vecs'[last'.v].data.cap = vecs[last'.other].size
            /\ ElemsIn(heap', vecs'[last'.v]) = ElemsIn(heap, vecs[last'.other])
            /\ vecs'[last'.other] = vecs[last'.other]
            /\ ElemsIn(heap', vecs'[last'.other]) = ElemsIn(heap, vecs[last'.other])]_vars
    /\ [][Mutation =>
            \A w \in VecIds \ {last'.v} :
                /\ vecs'[w] = vecs[w]
                /\ ElemsIn(heap', vecs'[w]) = ElemsIn(heap, vecs[w])]_vars
    /\ [](\A v, w \in VecIds :
            (v # w /\ vecs[v].alive /\ vecs[w].alive /\ vecs[v].data.buf # Null) =>
                vecs[v].data.buf # vecs[w].data.buf)

\* a copy, of capacity 1, of a vector of one element and capacity 2
C18_Witness ==
    /\ last.op = "VectorCopy" /\ last.fail = "none"
    /\ vecs[last.other].size = 1 /\ vecs[last.other].data.cap = 2
    /\ vecs[last.v].data.cap = 1 /\ ElemsIn(heap, vecs[last.v]) = <<2>>

\* C19: Erase shifts the tail by move assignment exactly when the move
\* assignment of T cannot fail and by copy assignment otherwise, for every
\* combination of the capabilities of T; so when Erase is declared
\* non-failing (T nothrow move-assignable) its shift raises no failure.
C19_ErasePicksByAssignability ==
    [][last'.op = "Erase" =>
          /\ ShiftByMove <=> T.nma
          /\ T.nma => last'.fail = "none"]_vars

\* C20: v.Insert(p, v[i]) and v.PushBack(v[i]), for every valid p and every
\* i < n (i = n - 1 included), growing or not, insert a value equal to the
\* value v[i] had before the call and leave every element that was there
\* with the value it had.
C20_SelfInsertKeepsValue ==
    [][last'.op \in {"InsertSelf", "PushBackSelf"} =>
          ElemsIn(heap', vecs'[last'.v])
            = InsertAt(ElemsIn(heap, vecs[last'.v]), last'.arg,
                       ElemsIn(heap, vecs[last'.v])[last'.val + 1])]_vars

====
